---- MODULE Spec2Model ----
(***************************************************************************)
(* A model of waves.membrane.Membrane and waves.wavepacket.Wavepacket.     *)
(*                                                                         *)
(* Lengths are integers in an arbitrary length unit; the spatial step dx   *)
(* and the sizes of the membrane are whole numbers of that unit, sizes     *)
(* being even so that the half-extent size/2 is a whole number too.        *)
(* Distances (square roots) are kept in fixed point, Res sub-units per     *)
(* unit.  Python values of mixed type (a boundary that is a string, an     *)
(* int, a bool, None ...) are records with a `kind` field.                 *)
(***************************************************************************)
EXTENDS Integers, Sequences, FiniteSets, TLC

\* ---------------------------------------------------------------- bounds
PosMax == 2
MaxOrder == 2
MaxSources == 1
Res == 2

\* ---------------------------------------------------------------- inputs
StepSet == {1, 2}
SizeSet == {0, 2, 4, 6}
TimeSet == {1, 2}

\* Python values handed to the boundary setter.
PyStr(s) == [kind |-> "str", s |-> s, n |-> 0]
PyInt(n) == [kind |-> "int", s |-> "", n |-> n]
PyBool(b) == [kind |-> "bool", s |-> "", n |-> IF b THEN 1 ELSE 0]
PyNone == [kind |-> "none", s |-> "", n |-> 0]
PyFloat(n) == [kind |-> "float", s |-> "", n |-> n]

BoundaryInputs ==
    {PyStr("transparent"), PyStr("free"), PyStr("fixed"), PyNone, PyFloat(1),
     PyBool(TRUE)} \cup {PyInt(n) : n \in -1..MaxOrder}

Coords == -PosMax..PosMax
Positions == Coords \X Coords

\* ------------------------------------------------------------ arithmetic
RECURSIVE ISqrt(_)
\* floor of the square root
ISqrt(n) ==
    IF n < 2 THEN n
    ELSE LET s == 2 * ISqrt(n \div 4)
         IN  IF (s + 1) * (s + 1) <= n THEN s + 1 ELSE s

CeilDiv(a, b) == -((-a) \div b)

\* --------------------------------------------------------------- state
VARIABLES
    alive,              \* the Membrane object exists (its constructor returned)
    dx,                 \* Membrane.dx
    time,               \* Membrane.time, the total travel time T
    xylims,             \* Membrane._xylims as <<Dx, Dy>>, the half-extents
    xs, ys,             \* the grid axes, Membrane.xs and Membrane.ys
    boundary,           \* Membrane._boundary
    sources,            \* Membrane._sources
    reflected_sources,  \* Membrane._reflected_sources
    results,            \* Membrane._data['results']
    call,               \* history: the last call made and its outcome
    wp                  \* a Wavepacket object under configuration

mvars == <<alive, dx, time, xylims, xs, ys, boundary, sources,
           reflected_sources, results>>
vars == <<alive, dx, time, xylims, xs, ys, boundary, sources,
          reflected_sources, results, call, wp>>

NoResults == [set |-> FALSE, shape |-> <<0, 0, 0>>, terms |-> <<>>]
NoCall ==
    [op |-> "none", ok |-> TRUE, err |-> "", arg |-> <<>>, n |-> 0,
     val |-> [kind |-> "none", s |-> "", n |-> 0]]

\* a call record: the operation, whether it returned (ok) or raised (err),
\* its position or size argument, and a count the operation reports
Call(op, ok, err, arg, n) ==
    [op |-> op, ok |-> ok, err |-> err, arg |-> arg, n |-> n,
     val |-> [kind |-> "none", s |-> "", n |-> 0]]
NoWavepacket ==
    [alive |-> FALSE, disprel |-> <<>>, spectrum |-> <<>>, envelope |-> "None",
     xlim |-> <<0, 0>>, tlim |-> <<0, 0>>, x_vect |-> <<>>, time_vect |-> <<>>,
     data |-> FALSE]

\* ------------------------------------------------- Membrane: construction
\* np.arange(0, L, dx): 0, dx, 2 dx, ... strictly below L
arange(L, step) == [i \in 1..CeilDiv(L, step) |-> (i - 1) * step]

\* flip_and_hstack = lambda u: np.hstack((-np.flip(u[1:]), u))
flip_and_hstack(u) ==
    [i \in 1..(2 * Len(u) - 1) |->
        IF i < Len(u) THEN -u[Len(u) - i + 1] ELSE u[i - Len(u) + 1]]

\* the predicate of the domain setter: a number greater than 0
domain_pred(x) == x > 0

\* a boundary setter that takes only the integers from 1 on
boundary_accepts_positive(value) ==
    \/ (value.kind = "str" /\ value.s \in {"transparent", "free"})
    \/ (value.kind = "int" /\ value.n >= 1)

\* Membrane.boundary setter: the values it stores
boundary_accepts(value) ==
    \/ (value.kind = "str" /\ value.s \in {"transparent", "free"})
    \/ value.kind \in {"int", "bool"}        \* isinstance(value, int)

\* Membrane.__init__ up to the first raise; the result is the new object's
\* fields, or the error that left no object behind.
membrane_init(step, size, T, b) ==
    LET Lx == size[1] \div 2
        Ly == size[2] \div 2
        gx == flip_and_hstack(arange(Lx, step))
        gy == flip_and_hstack(arange(Ly, step))
        newsize == <<gx[Len(gx)] * 2, gy[Len(gy)] * 2>>
        fail(e) == [ok |-> FALSE, err |-> e, xs |-> <<>>, ys |-> <<>>,
                    xylims |-> <<0, 0>>]
    IN  IF ~(domain_pred(size[1]) /\ domain_pred(size[2])) THEN fail("size")
        ELSE IF ~boundary_accepts(b) THEN fail("boundary")
        ELSE IF ~(domain_pred(newsize[1]) /\ domain_pred(newsize[2]))
             THEN fail("domain")
        ELSE [ok |-> TRUE, err |-> "", xs |-> gx, ys |-> gy,
              xylims |-> <<newsize[1] \div 2, newsize[2] \div 2>>]

Construct(step, size, T, b) ==
    /\ ~alive
    /\ LET r == membrane_init(step, size, T, b)
       IN  /\ alive' = r.ok
           /\ dx' = IF r.ok THEN step ELSE dx
           /\ time' = IF r.ok THEN T ELSE time
           /\ xs' = r.xs
           /\ ys' = r.ys
           /\ xylims' = r.xylims
           /\ boundary' = IF r.ok THEN b ELSE boundary
           /\ call' = [Call("init", r.ok, r.err, <<step, size[1], size[2]>>, 0)
                          EXCEPT !.val = b]
    /\ sources' = <<>>
    /\ reflected_sources' = <<>>
    /\ results' = NoResults
    /\ UNCHANGED wp

\* Membrane.boundary = value, on an existing object
SetBoundary(value) ==
    /\ alive
    /\ boundary' = IF boundary_accepts(value) THEN value ELSE boundary
    /\ call' = [Call("boundary", boundary_accepts(value),
                      IF boundary_accepts(value) THEN "" ELSE "TypeError",
                      <<>>, 0) EXCEPT !.val = value]
    /\ UNCHANGED <<alive, dx, time, xylims, xs, ys, sources,
                   reflected_sources, results, wp>>

\* --------------------------------------------- Membrane: _reflect_position
\* the mirror image with the sign of the coordinate lost
new_coord_unsigned(b, p) == 2 * b + p

new_coord(b, p) == 2 * b - p

\* the image of pos across edge i
new_pos(i, pos, D) ==
    CASE i = "a" -> <<pos[1], new_coord(D[2], pos[2])>>
      [] i = "b" -> <<new_coord(D[1], pos[1]), pos[2]>>
      [] i = "c" -> <<pos[1], new_coord(-D[2], pos[2])>>
      [] i = "d" -> <<new_coord(-D[1], pos[1]), pos[2]>>

\* the if/elif chain: the region of pos, 9 when no branch matches
region(pos, D) ==
    LET x == pos[1]
        y == pos[2]
        Dx == D[1]
        Dy == D[2]
    IN  IF -Dx < x /\ x < Dx /\ -Dy < y /\ y < Dy THEN 0
        ELSE IF y > Dy /\ x < -Dx THEN 1
        ELSE IF y > Dy /\ -Dx <= x /\ x < Dx THEN 2
        ELSE IF y > Dy /\ x >= Dx THEN 3
        ELSE IF x > Dx /\ -Dy <= y /\ y <= Dy THEN 4
        ELSE IF x >= Dx /\ y <= Dy THEN 5
        ELSE IF y < -Dy /\ -Dx <= x /\ x < Dx THEN 6
        ELSE IF y < -Dy /\ x < -Dx THEN 7
        ELSE IF x < -Dx /\ -Dy <= y /\ y <= Dy THEN 8
        ELSE 9

region_edges(r) ==
    CASE r = 0 -> <<"a", "b", "c", "d">>
      [] r = 1 -> <<"b", "c">>
      [] r = 2 -> <<"b", "c", "d">>
      [] r = 3 -> <<"c", "d">>
      [] r = 4 -> <<"a", "c", "d">>
      [] r = 5 -> <<"a", "d">>
      [] r = 6 -> <<"a", "b", "d">>
      [] r = 7 -> <<"a", "b">>
      [] r = 8 -> <<"a", "b", "c">>
      [] r = 9 -> <<>>

\* _reflect_position(pos): ok is FALSE when it raises ValueError
reflect_position(pos, D) ==
    LET r == region(pos, D)
        e == region_edges(r)
    IN  [ok |-> r # 9,
         refl |-> [i \in 1..Len(e) |-> new_pos(e[i], pos, D)]]

\* ---------------------------------------------------- Membrane: add_source
RECURSIVE reflect_all(_, _)
\* for p in tmp1: tmp2 += self._reflect_position(p)
reflect_all(tmp1, D) ==
    IF tmp1 = <<>> THEN [ok |-> TRUE, refl |-> <<>>]
    ELSE LET h == reflect_position(Head(tmp1), D)
             t == reflect_all(Tail(tmp1), D)
         IN  [ok |-> h.ok /\ t.ok, refl |-> h.refl \o t.refl]

RECURSIVE additional_iterations_last(_, _, _, _)
\* the additional iterations with `reflected_positions = tmp2` in place of
\* `reflected_positions += tmp2`
additional_iterations_last(tmp1, reflected, k, D) ==
    IF k <= 0 THEN [ok |-> TRUE, refl |-> reflected]
    ELSE LET tmp2 == reflect_all(tmp1, D)
         IN  IF ~tmp2.ok THEN [ok |-> FALSE, refl |-> <<>>]
             ELSE additional_iterations_last(tmp2.refl, tmp2.refl, k - 1, D)

RECURSIVE additional_iterations(_, _, _, _)
\* for k in range(0, self.boundary - 1): ... reflected_positions += tmp2
additional_iterations(tmp1, reflected, k, D) ==
    IF k <= 0 THEN [ok |-> TRUE, refl |-> reflected]
    ELSE LET tmp2 == reflect_all(tmp1, D)
         IN  IF ~tmp2.ok THEN [ok |-> FALSE, refl |-> <<>>]
             ELSE additional_iterations(tmp2.refl, reflected \o tmp2.refl,
                                        k - 1, D)

\* the list reflected_positions that add_source builds for pos under
\* boundary b (b is not 'transparent'); ok is FALSE when a
\* _reflect_position call raised
reflected_positions(pos, b, D) ==
    LET first == reflect_position(pos, D)
    IN  IF ~first.ok THEN [ok |-> FALSE, refl |-> <<>>]
        ELSE IF b.kind \in {"int", "bool"}
             THEN additional_iterations(first.refl, first.refl, b.n - 1, D)
        ELSE first

\* the squared distances from pos to the points of the grid
dist2(pos, gx, gy) ==
    {(gx[i] - pos[1]) * (gx[i] - pos[1]) + (gy[j] - pos[2]) * (gy[j] - pos[2]) :
        i \in 1..Len(gx), j \in 1..Len(gy)}

SetMax(S) == CHOOSE m \in S : \A e \in S : e <= m
SetMin(S) == CHOOSE m \in S : \A e \in S : m <= e

\* np.sqrt, in fixed point
sqrt(d2) == ISqrt(Res * Res * d2)

\* _add_source_to_list: the placement (source, pos, dist); dist is
\* determined by pos and the grid and is not stored.  `source.domain` and
\* `source.time` are taken to set the clone's space and time boundaries.
placement(source, pos, gx, gy, T) ==
    LET d2 == dist2(pos, gx, gy)
        d_max == sqrt(SetMax(d2))
        d_min == IF gx[1] <= pos[1] /\ pos[1] <= gx[Len(gx)]
                    /\ gy[1] <= pos[2] /\ pos[2] <= gy[Len(gy)]
                 THEN 0
                 ELSE sqrt(SetMin(d2))
    IN  [pos |-> pos,
         src |-> [disprel |-> source.disprel,
                  xlim |-> <<d_min, d_max>>,
                  tlim |-> <<0, T>>,
                  x_vect |-> <<>>,
                  time_vect |-> <<>>,
                  data |-> FALSE]]

SourceInputs ==
    {[wavepacket |-> TRUE, disprel |-> <<"f">>],
     [wavepacket |-> FALSE, disprel |-> <<>>]}

PosInputs ==
    {[tuple |-> TRUE, numbers |-> TRUE, xy |-> p] : p \in Positions}
    \cup {[tuple |-> FALSE, numbers |-> FALSE, xy |-> <<0, 0>>],
          [tuple |-> TRUE, numbers |-> FALSE, xy |-> <<0, 0>>]}

add_source(source, pos) ==
    /\ alive
    /\ Len(sources) < MaxSources
    /\ IF ~source.wavepacket \/ ~pos.tuple \/ ~pos.numbers
       THEN /\ call' = Call("add_source", FALSE, "TypeError", pos.xy, 0)
            /\ UNCHANGED <<sources, reflected_sources>>
       ELSE LET new == placement(source, pos.xy, xs, ys, time)
                r == reflected_positions(pos.xy, boundary, xylims)
            IN  /\ sources' = Append(sources, new)
                /\ IF boundary = PyStr("transparent")
                   THEN /\ UNCHANGED reflected_sources
                        /\ call' = Call("add_source", TRUE, "", pos.xy, 0)
                   ELSE IF ~r.ok
                   THEN /\ UNCHANGED reflected_sources
                        /\ call' = Call("add_source", FALSE, "ValueError",
                                         pos.xy, 0)
                   ELSE /\ reflected_sources' = reflected_sources \o
                              [i \in 1..Len(r.refl) |->
                                  placement(source, r.refl[i], xs, ys, time)]
                        /\ call' = Call("add_source", TRUE, "", pos.xy,
                                         Len(r.refl))
    /\ UNCHANGED <<alive, dx, time, xylims, xs, ys, boundary, results, wp>>

\* ------------------------------------------------------------- Wavepacket
\* BaseWave._discretize(lims, step): the multiples of step that cover
\* lims, as <<first, last, size>>
discretize(lims, step) ==
    LET first == step * (lims[1] \div step)
        last == step * CeilDiv(lims[2], step)
    IN  <<first, last, (last - first) \div step + 1>>

\* Wavepacket.eval with the space boundary rewritten from the time axis
wavepacket_eval_time(w, step, dt) ==
    LET tv == discretize(w.tlim, dt)
        xv == discretize(w.xlim, step)
    IN  [w EXCEPT !.time_vect = tv,
                  !.x_vect = xv,
                  !.tlim = <<tv[1], tv[2]>>,
                  !.xlim = <<tv[1], tv[2]>>,
                  !.data = TRUE]

\* Wavepacket.eval: rerun the discretization, rewrite the boundaries to
\* the realized extents, compute the field
wavepacket_eval(w, step, dt) ==
    LET tv == discretize(w.tlim, dt)
        xv == discretize(w.xlim, step)
    IN  [w EXCEPT !.time_vect = tv,
                  !.x_vect = xv,
                  !.tlim = <<tv[1], tv[2]>>,
                  !.xlim = <<xv[1], xv[2]>>,
                  !.data = TRUE]

\* BaseWave.purge_data: drop the results, keep the configuration
purge_data(w) == [w EXCEPT !.data = FALSE]


\* ----------------------------------------------- Wavepacket: configuration
\* Python values handed to the list-valued setters: None, one element, or
\* a list of elements.  "f" and "g" are callables, "1" and "2" numbers.
PyNoneList == [kind |-> "None", items |-> <<>>]
PyScalar(x) == [kind |-> "scalar", items |-> <<x>>]
PyList(xs_) == [kind |-> "list", items |-> xs_]

Callables == {"f", "g"}
Numbers == {"1", "2"}
callable(x) == x \in Callables

DisprelInputs ==
    {PyNoneList, PyList(<<>>), PyScalar("f"), PyList(<<"f", "g">>),
     PyScalar("1")}
FreqInputs == {PyNoneList, PyScalar("1"), PyList(<<"1", "2">>), PyScalar("f")}
EnvelopeInputs == {"None", "f", "1"}
LengthSet == {1, 2}

\* BaseWave._set_list_value: accepted is the set of the elements that
\* satisfy the predicate; raising is TRUE when err_if_none raises
set_list_value(old, value, accepted, raising) ==
    IF \E i \in 1..Len(value.items) : value.items[i] \notin accepted
    THEN [ok |-> FALSE, err |-> "TypeError", val |-> old]
    ELSE IF value.items = <<>> /\ raising
    THEN [ok |-> FALSE, err |-> "ValueError", val |-> old]
    ELSE [ok |-> TRUE, err |-> "", val |-> value.items]

\* a dispersion setter whose err_if_none does not raise
set_dispersion_silent(old, disprels) ==
    IF disprels.kind = "None" THEN [ok |-> TRUE, err |-> "", val |-> <<>>]
    ELSE set_list_value(old, disprels, Callables, FALSE)

\* Wavepacket.dispersion setter
set_dispersion(old, disprels) ==
    IF disprels.kind = "None" THEN [ok |-> TRUE, err |-> "", val |-> <<>>]
    ELSE set_list_value(old, disprels, Callables, TRUE)

\* Wavepacket.spectrum setter
set_spectrum(old, freqs) == set_list_value(old, freqs, Numbers, FALSE)

\* Wavepacket.envelope setter: the field is reset before the check
set_envelope(func) ==
    IF func = "None" THEN [ok |-> TRUE, err |-> "", val |-> "None"]
    ELSE IF ~callable(func) THEN [ok |-> FALSE, err |-> "TypeError", val |-> "None"]
    ELSE [ok |-> TRUE, err |-> "", val |-> func]

\* the call record of a list-valued setter: n is the length of the list
\* handed over, -1 for None
WCall(op, r, value) ==
    Call(op, r.ok, r.err, <<>>,
         IF value.kind = "None" THEN -1 ELSE Len(value.items))

\* Wavepacket.__init__: spectrum, envelope, boundaries, dispersion in turn
WpConstruct(disprel, length, T, freq, envelope) ==
    /\ ~wp.alive
    /\ LET sp == set_spectrum(<<>>, freq)
           en == set_envelope(envelope)
           di == set_dispersion(<<>>, disprel)
       IN  IF ~sp.ok THEN
                /\ call' = Call("wp_init", FALSE, sp.err, <<>>, 0)
                /\ UNCHANGED wp
           ELSE IF ~en.ok THEN
                /\ call' = Call("wp_init", FALSE, en.err, <<>>, 0)
                /\ UNCHANGED wp
           ELSE IF ~di.ok THEN
                /\ call' = WCall("wp_init", di, disprel)
                /\ UNCHANGED wp
           ELSE /\ call' = WCall("wp_init", di, disprel)
                /\ wp' = [alive |-> TRUE, disprel |-> di.val,
                          spectrum |-> sp.val, envelope |-> en.val,
                          xlim |-> <<0, length * Res>>, tlim |-> <<0, T>>,
                          x_vect |-> <<>>, time_vect |-> <<>>, data |-> FALSE]
    /\ UNCHANGED mvars

SetDispersion(value) ==
    /\ wp.alive
    /\ LET r == set_dispersion(wp.disprel, value)
       IN  /\ wp' = [wp EXCEPT !.disprel = r.val]
           /\ call' = WCall("dispersion", r, value)
    /\ UNCHANGED mvars

SetSpectrum(value) ==
    /\ wp.alive
    /\ LET r == set_spectrum(wp.spectrum, value)
       IN  /\ wp' = [wp EXCEPT !.spectrum = r.val]
           /\ call' = WCall("spectrum", r, value)
    /\ UNCHANGED mvars

SetEnvelope(func) ==
    /\ wp.alive
    /\ LET r == set_envelope(func)
       IN  /\ wp' = [wp EXCEPT !.envelope = r.val]
           /\ call' = Call("envelope", r.ok, r.err, <<>>, 0)
    /\ UNCHANGED mvars

\* Wavepacket.eval() on the object, with dx one unit and fs one sample
\* per time unit
WpEval ==
    /\ wp.alive
    /\ wp' = wavepacket_eval(wp, Res, 1)
    /\ call' = Call("wp_eval", TRUE, "", <<>>, 0)
    /\ UNCHANGED mvars

WpPurge ==
    /\ wp.alive
    /\ wp' = purge_data(wp)
    /\ call' = Call("purge_data", TRUE, "", <<>>, 0)
    /\ UNCHANGED mvars

\* -------------------------------------------------------- Membrane: eval
\* BaseWave.get_time().size for a travel time T: 0, dt, ..., T
time_size(T) == discretize(<<0, T>>, 1)[3]

\* np.meshgrid(xs, ys) has shape (ys.size, xs.size), and so has dist
dist_shape(gx, gy) == <<Len(gy), Len(gx)>>

\* base.interp(dist, src_domain, src_data): dist.shape + (nTime,)
interp_shape(dshape, w) == dshape \o <<w.time_vect[3]>>

\* data += term: numpy adds in place when term broadcasts to data's shape
can_add(dshape, tshape) ==
    \A i \in 1..3 : tshape[i] = dshape[i] \/ tshape[i] = 1

\* what one placement contributes to the field
term(pl, w) == [pos |-> pl.pos, x_vect |-> w.x_vect, disprel |-> w.disprel]

RECURSIVE fold(_, _, _, _, _, _)
\* the loop of eval over the placements pls, from index i, with data the
\* accumulator: ok is FALSE when the loop raised
fold(pls, i, data, shape, dshape, step) ==
    IF i > Len(pls) THEN [ok |-> TRUE, pls |-> pls, data |-> data]
    ELSE LET w == wavepacket_eval(pls[i].src, step * Res, 1)
             evaluated == [pls EXCEPT ![i].src = w]
         IN  IF ~can_add(shape, interp_shape(dshape, w))
             THEN [ok |-> FALSE, pls |-> evaluated, data |-> data]
             ELSE fold([pls EXCEPT ![i].src = purge_data(w)], i + 1,
                       Append(data, term(pls[i], w)), shape, dshape, step)

\* eval accumulating in the published field: an abort leaves what was
\* accumulated so far
publish_partial(old, shape, f) ==
    [set |-> TRUE, shape |-> shape, terms |-> f.data]

\* the value of Membrane._data['results'] after eval
publish(old, shape, f) ==
    IF f.ok THEN [set |-> TRUE, shape |-> shape, terms |-> f.data] ELSE old

eval ==
    /\ alive
    /\ LET shape == <<Len(xs), Len(ys), time_size(time)>>
           f == fold(sources \o reflected_sources, 1, <<>>, shape,
                     dist_shape(xs, ys), dx)
       IN  /\ sources' = SubSeq(f.pls, 1, Len(sources))
           /\ reflected_sources' = SubSeq(f.pls, Len(sources) + 1, Len(f.pls))
           /\ results' = publish(results, shape, f)
           /\ call' = Call("eval", f.ok, IF f.ok THEN "" ELSE "ValueError",
                            <<>>, IF call.op = "eval" /\ call.ok THEN 1 ELSE 0)
    /\ UNCHANGED <<alive, dx, time, xylims, xs, ys, boundary, wp>>

\* --------------------------------------------------------- specification
Init ==
    /\ alive = FALSE
    /\ dx = 0
    /\ time = 0
    /\ xylims = <<0, 0>>
    /\ xs = <<>>
    /\ ys = <<>>
    /\ boundary = PyNone
    /\ sources = <<>>
    /\ reflected_sources = <<>>
    /\ results = NoResults
    /\ call = NoCall
    /\ wp = NoWavepacket

Next ==
    \/ \E step \in StepSet, size \in SizeSet \X SizeSet, T \in TimeSet,
          b \in BoundaryInputs : Construct(step, size, T, b)
    \/ \E source \in SourceInputs, pos \in PosInputs : add_source(source, pos)
    \/ eval

Spec == Init /\ [][Next]_vars

\* the boundary property alone: construction and the setter
NextB ==
    \/ \E step \in StepSet, size \in SizeSet \X SizeSet, T \in TimeSet,
          b \in BoundaryInputs : Construct(step, size, T, b)
    \/ \E value \in BoundaryInputs : SetBoundary(value)

SpecB == Init /\ [][NextB]_vars

\* the Wavepacket alone
NextW ==
    \/ \E disprel \in DisprelInputs, length \in LengthSet, T \in TimeSet,
          freq \in FreqInputs, envelope \in EnvelopeInputs :
          WpConstruct(disprel, length, T, freq, envelope)
    \/ \E value \in DisprelInputs : SetDispersion(value)
    \/ \E value \in FreqInputs : SetSpectrum(value)
    \/ \E func \in EnvelopeInputs : SetEnvelope(func)
    \/ WpEval
    \/ WpPurge

SpecW == Init /\ [][NextW]_vars

\* ================================================================ claims
\* the positions of the reflected placements the last add_source registered
LastReflected ==
    [i \in 1..call.n |->
        reflected_sources[Len(reflected_sources) - call.n + i].pos]

Interior(pos, D) ==
    -D[1] < pos[1] /\ pos[1] < D[1] /\ -D[2] < pos[2] /\ pos[2] < D[2]

Reflecting == boundary # PyStr("transparent")

AddedOk == call.op = "add_source" /\ call.ok

\* C1: for a position (x, y) strictly inside the membrane, the first round
\* of reflections is exactly the four images (x, 2Dy - y), (2Dx - x, y),
\* (x, -2Dy - y), (-2Dx - x, y): four positions are returned and they are
\* these four; under a one-round boundary they are all that is registered.
C1_InteriorImages ==
    (AddedOk /\ Reflecting /\ Interior(call.arg, xylims)) =>
        LET x == call.arg[1]
            y == call.arg[2]
            Dx == xylims[1]
            Dy == xylims[2]
            r == LastReflected
        IN  /\ Len(r) >= 4
            /\ {r[i] : i \in 1..4} =
                   {<<x, 2 * Dy - y>>, <<2 * Dx - x, y>>,
                    <<x, -2 * Dy - y>>, <<-2 * Dx - x, y>>}
            /\ Cardinality({r[i] : i \in 1..4}) = 4
            /\ (boundary.n <= 1 => Len(r) = 4)

C1_Witness ==
    /\ AddedOk
    /\ boundary = PyStr("free")
    /\ Interior(call.arg, xylims)
    /\ call.arg[1] # 0
    /\ call.arg[2] # 0
    /\ call.n = 4

RECURSIVE Flatten(_)
Flatten(ss) == IF ss = <<>> THEN <<>> ELSE Head(ss) \o Flatten(Tail(ss))

RECURSIVE Round(_, _, _)
\* round k of reflections of pos: _reflect_position applied to every
\* position of round k - 1
Round(pos, k, D) ==
    IF k = 1 THEN reflect_position(pos, D).refl
    ELSE LET prev == Round(pos, k - 1, D)
         IN  Flatten([i \in 1..Len(prev) |-> reflect_position(prev[i], D).refl])

RoundsUpTo(pos, n, D) == Flatten([k \in 1..n |-> Round(pos, k, D)])

IsPrefix(a, b) == Len(a) <= Len(b) /\ a = SubSeq(b, 1, Len(a))

\* C2: under an integer boundary N the reflected placements registered for
\* a position are rounds 1..N, each round being _reflect_position applied
\* to every position of the round before, and they are a prefix of what
\* boundary N + 1 registers for the same position; so their number does
\* not decrease with N.  When add_source raises under N it registers no
\* reflected placement, and it raises under N + 1 as well.
C2_RoundsPrefix ==
    (call.op = "add_source" /\ boundary.kind = "int"
        /\ call.err # "TypeError") =>
        LET N == boundary.n
            nxt == reflected_positions(call.arg, PyInt(N + 1), xylims)
            r == LastReflected
        IN  IF call.ok
            THEN /\ nxt.ok
                 /\ r = RoundsUpTo(call.arg, IF N >= 1 THEN N ELSE 1, xylims)
                 /\ IsPrefix(r, nxt.refl)
                 /\ Len(r) <= Len(nxt.refl)
            ELSE ~nxt.ok /\ call.n = 0

C2_Witness ==
    /\ AddedOk
    /\ boundary = PyInt(2)
    /\ Interior(call.arg, xylims)
    /\ call.n = 16
    /\ Len(reflected_sources) = 16

\* C9: _reflect_position finds a region for every position, the positions
\* on the edge lines included, so no add_source ends in the ValueError of
\* its last branch.
C9_NoFatalBranch ==
    ~(call.op = "add_source" /\ call.err = "ValueError")

Placements == Len(sources) + Len(reflected_sources)

\* C3: results changes only in the last step of an eval that completes,
\* and then it holds the contribution of every placement; an eval that
\* aborts leaves results as the previous successful eval published it, or
\* unset.
C3_ResultsAtomic ==
    [][/\ (results' # results =>
              /\ call'.op = "eval"
              /\ call'.ok
              /\ results'.set
              /\ Len(results'.terms) = Len(sources') + Len(reflected_sources'))
       /\ (call'.op = "eval" /\ ~call'.ok => results' = results)]_vars

C3_Witness ==
    /\ call.op = "eval"
    /\ ~call.ok
    /\ results.set
    /\ Placements > Len(results.terms)

\* C4: an eval that follows a completed eval, with no add_source between
\* the two, publishes the results the first one published.
C4_EvalIdempotent ==
    [][(call.op = "eval" /\ call.ok /\ call'.op = "eval" /\ call'.ok) =>
           results' = results]_vars

C4_Witness ==
    /\ call.op = "eval"
    /\ call.ok
    /\ call.n = 1
    /\ Len(reflected_sources) > 0
    /\ Len(results.terms) = Placements
    /\ \E i \in 1..Len(reflected_sources) :
           reflected_sources[i].src.xlim[1] # 0

\* the half-extent asked of the constructor on an axis
Half(size) == size \div 2

Constructed == call.op = "init" /\ call.ok

\* C5: when the half-extent L/2 of an axis is k times dx, the axis of the
\* grid runs from -L/2 to L/2 and has 2k + 1 points.
C5_GridInclusive ==
    Constructed =>
        LET step == call.arg[1]
            inclusive(g, L) ==
                (Half(L) % step = 0) =>
                    /\ Len(g) = 2 * (Half(L) \div step) + 1
                    /\ g[1] = -Half(L)
                    /\ g[Len(g)] = Half(L)
        IN  inclusive(xs, call.arg[2]) /\ inclusive(ys, call.arg[3])

Symmetric(g, step) ==
    /\ \A i \in 1..Len(g) : g[i] = -g[Len(g) + 1 - i]
    /\ \A i \in 1..(Len(g) - 1) : g[i + 1] - g[i] = step

\* C6: for a positive dx and a size of two positive numbers, a half-extent
\* not larger than dx included, construction succeeds, the axes of the
\* grid are symmetric about 0 and spaced by dx, and the stored half-extent
\* of each axis is its largest grid coordinate.
C6_ConstructionSucceeds ==
    (call.op = "init" /\ call.arg[2] > 0 /\ call.arg[3] > 0
        /\ call.err # "boundary") =>
        /\ call.ok
        /\ Symmetric(xs, dx)
        /\ Symmetric(ys, dx)
        /\ xylims = <<xs[Len(xs)], ys[Len(ys)]>>

\* C10: for any valid size, the non-square ones included, an eval with at
\* least one placement completes: the interpolated field of a placement
\* has the shape of the accumulator.
C10_EvalCompletes ==
    (call.op = "eval" /\ Placements >= 1) => call.ok

\* C7 as stated: a Membrane holds 'transparent', 'free' or an integer
\* N >= 1 and nothing else.
C7_BoundaryAtLeastOne ==
    alive =>
        \/ (boundary.kind = "str" /\ boundary.s \in {"transparent", "free"})
        \/ (boundary.kind = "int" /\ boundary.n >= 1)

IntOrNamed(v) ==
    \/ (v.kind = "str" /\ v.s \in {"transparent", "free"})
    \/ v.kind \in {"int", "bool"}

\* C7, amended: setting the boundary, at construction or through the
\* setter, to anything other than 'transparent', 'free' or an int (any
\* int: zero, the negative ones and the booleans included) raises and the
\* value is not stored, while each of those values is stored; no Membrane
\* holds a boundary outside these forms.
C7_BoundaryIntOrNamed ==
    /\ [](alive => IntOrNamed(boundary))
    /\ [][(call' # call /\ call'.op \in {"init", "boundary"}) =>
             IF IntOrNamed(call'.val)
             THEN /\ call'.err \notin {"boundary", "TypeError"}
                  /\ (call'.ok => boundary' = call'.val)
             ELSE /\ ~call'.ok
                  /\ boundary' = boundary
                  /\ alive' = alive]_vars

C7_Witness ==
    /\ call.op = "boundary"
    /\ ~call.ok
    /\ call.val.kind = "float"
    /\ boundary = PyInt(0)

\* C8 as stated: no Wavepacket holds an empty set of dispersion relations.
C8_DispersionNeverEmpty == wp.alive => wp.disprel # <<>>

\* C8, amended: setting the dispersion to an empty sequence, at
\* construction or through the setter, raises and stores nothing; setting
\* it to None stores the empty set without an error; a Wavepacket comes to
\* hold an empty set by no other call.
C8_DispersionEmptyOnlyByNone ==
    [][(call' # call \/ wp' # wp) =>
          /\ (call'.op \in {"wp_init", "dispersion"} /\ call'.n = 0
                 /\ call'.err \notin {"TypeError"} =>
                 ~call'.ok /\ call'.err = "ValueError" /\ wp' = wp)
          /\ (call'.op \in {"wp_init", "dispersion"} /\ call'.n = -1
                 /\ call'.err # "TypeError" =>
                 call'.ok /\ wp'.alive /\ wp'.disprel = <<>>)
          /\ (wp'.alive /\ wp'.disprel = <<>>
                 /\ ~(wp.alive /\ wp.disprel = <<>>) =>
                 call'.op \in {"wp_init", "dispersion"} /\ call'.n = -1)]_vars

C8_Witness ==
    /\ wp.alive
    /\ wp.disprel # <<>>
    /\ call.op = "dispersion"
    /\ call.n = 0
    /\ call.err = "ValueError"

\* C11: an add_source that raises registers nothing: whether the source is
\* no Wavepacket, the position no tuple of two numbers, or
\* _reflect_position ends in its last branch, the lists of sources and of
\* reflected sources are what they were before the call.
C11_FailedAddRegistersNothing ==
    [][(call'.op = "add_source" /\ ~call'.ok) =>
           /\ sources' = sources
           /\ reflected_sources' = reflected_sources]_vars

====
